---- MODULE Spec2Model ----
(***************************************************************************)
(* Model of StableRadOptProblem, the reward function of                    *)
(* examples/stable_radical_optimization/stable_radical_opt.py:             *)
(* get_reward, calc_reward, calc_bde, prepare_for_bde, bde_get_inputs and  *)
(* windowed_loss.                                                          *)
(*                                                                         *)
(* Python floats are modelled as exact rationals <<n, d>> (d > 0, lowest   *)
(* terms), so rounding error is outside the model.  A Python list or numpy *)
(* array is a sequence; Python index i is position i + 1.  A call either   *)
(* returns a value or raises: [kind |-> "return", val |-> v] or            *)
(* [kind |-> "raise", exc |-> name].                                       *)
(***************************************************************************)
EXTENDS Integers, Sequences, FiniteSets, TLC

VARIABLES
    state,        \* the StableRadMoleculeState being scored (its molecule is a mutable rdkit Mol)
    created,      \* the state's molecule as the builder created it (history)
    env,          \* what the featurizers, the models and rdkit's canonicalisation answer for this state
    ret,          \* outcome of the last get_reward call
    first_ret,    \* outcome of the first get_reward call on this state (history)
    calls,        \* number of calls made on this state
    trace,        \* what the last get_reward call invoked
    bde_inputs,   \* outcome of the last prepare_for_bde call
    bde_ret,      \* outcome of the last calc_bde call
    bde_arg,      \* the molecule handed to the last prepare_for_bde / calc_bde call (history)
    wl_range,     \* desired_range of the windowed_loss calls
    wl_targets,   \* targets of the windowed_loss calls
    wl_results    \* outcomes of the windowed_loss calls made so far

vars == <<state, created, env, ret, first_ret, calls, trace, bde_inputs, bde_ret, bde_arg,
          wl_range, wl_targets, wl_results>>

rewardVars == <<state, created, env, ret, first_ret, calls, trace>>
bdeVars == <<bde_inputs, bde_ret, bde_arg>>
wlVars == <<wl_range, wl_targets, wl_results>>

-----------------------------------------------------------------------------
(* Bounds of the model *)

\* largest number of heavy atoms of a molecule
MaxAtoms == 2
\* largest end point of a desired_range drawn for windowed_loss
MaxRange == 6
\* calls made on one state
MaxCalls == 2

-----------------------------------------------------------------------------
(* Exact rational arithmetic standing for Python float arithmetic *)

Abs(n) == IF n < 0 THEN -n ELSE n

RECURSIVE GCD(_, _)
GCD(a, b) == IF b = 0 THEN a ELSE GCD(b, a % b)

Rat(n, d) ==
    LET s == IF d < 0 THEN -1 ELSE 1
        g == GCD(Abs(n), Abs(d))
    IN  <<(s * n) \div g, (s * d) \div g>>

R(n) == <<n, 1>>
RAdd(a, b) == Rat(a[1] * b[2] + b[1] * a[2], a[2] * b[2])
RSub(a, b) == Rat(a[1] * b[2] - b[1] * a[2], a[2] * b[2])
RMul(a, b) == Rat(a[1] * b[1], a[2] * b[2])
\* b is nonzero
RDiv(a, b) == Rat(a[1] * b[2], a[2] * b[1])
RLt(a, b) == a[1] * b[2] < b[1] * a[2]
RLe(a, b) == a[1] * b[2] <= b[1] * a[2]
RAbs(a) == <<Abs(a[1]), a[2]>>
\* Python's max(a, b): the first of the largest
RMax(a, b) == IF RLt(a, b) THEN b ELSE a

Return(v) == [kind |-> "return", val |-> v]
Raise(e) == [kind |-> "raise", exc |-> e]
NoCall == [kind |-> "none"]

\* Python index i of a list
At(arr, i) == arr[i + 1]

-----------------------------------------------------------------------------
(* windowed_loss *)

\* the decay branch forgetting abs()
DecaySigned(target, lim, span) ==
    IF span = R(0)
    THEN Raise("ZeroDivisionError")
    ELSE Return(RMax(RSub(R(1), RMul(R(3), RDiv(RSub(target, lim), span))), R(0)))

\* the decay branch forgetting the clip at zero
DecayUnclipped(target, lim, span) ==
    IF span = R(0)
    THEN Raise("ZeroDivisionError")
    ELSE Return(RSub(R(1), RMul(R(3), RDiv(RAbs(RSub(target, lim)), span))))

\* max(1 - 3 * (abs(target - lim) / span), 0); a float division by a zero span raises
Decay(target, lim, span) ==
    IF span = R(0)
    THEN Raise("ZeroDivisionError")
    ELSE Return(RMax(RSub(R(1), RMul(R(3), RDiv(RAbs(RSub(target, lim)), span))), R(0)))

windowed_loss(target, desired_range) ==
    LET span == RSub(desired_range[2], desired_range[1])
        lower_lim == RAdd(desired_range[1], RDiv(span, R(6)))
        upper_lim == RSub(desired_range[2], RDiv(span, R(6)))
    IN  IF RLt(target, lower_lim) THEN Decay(target, lower_lim, span)
        ELSE IF RLt(upper_lim, target) THEN Decay(target, upper_lim, span)
        ELSE Return(R(1))

-----------------------------------------------------------------------------
(* Molecules (rdkit.Chem.Mol) and the rdkit calls prepare_for_bde makes.    *)
(* A molecule holds its heavy atoms and the bonds between them; hydrogens   *)
(* are counts on the heavy atoms until AddHs makes them atoms.              *)

Symbols == {"C"}

Atoms == [symbol : Symbols, rad : 0..1, expHs : 0..1, impHs : 0..1]

\* heavy atoms 0 .. n-1 bonded in a chain: bond k joins atoms k and k+1
ChainBonds(n) == [k \in 1..(n - 1) |-> <<k - 1, k>>]

Molecules == UNION {{[atoms |-> a, bonds |-> ChainBonds(n)] : a \in [1..n -> Atoms]} : n \in 1..MaxAtoms}

NumAtoms(mol) == Len(mol.atoms)

Perms(n) == {p \in [1..n -> 0..(n - 1)] : \A i, j \in 1..n : p[i] = p[j] => i = j}

None == <<>>
Some(i) == <<i>>

RadicalAtoms(mol) == {i \in 0..(NumAtoms(mol) - 1) : At(mol.atoms, i).rad # 0}

TotalHs(atom) == atom.expHs + atom.impHs

\* atom.SetNumExplicitHs(atom.GetNumExplicitHs() + 1); atom.SetNumRadicalElectrons(0),
\* done on the atom of the molecule that was passed in
Cap(mol, i) ==
    [mol EXCEPT !.atoms[i + 1] = [@ EXCEPT !.expHs = @ + 1, !.rad = 0]]

\* the loop over mol.GetAtoms(): it stops at the first radical atom
RECURSIVE ScanRadical(_, _, _)
ScanRadical(mol, i, radical_index) ==
    IF i >= NumAtoms(mol)
    THEN [res |-> Return(radical_index), mol |-> mol]
    ELSE IF At(mol.atoms, i).rad # 0
         THEN IF radical_index # None
              THEN [res |-> Raise("AssertionError"), mol |-> mol]
              ELSE [res |-> Return(Some(i)), mol |-> Cap(mol, i)]
         ELSE ScanRadical(mol, i + 1, radical_index)

\* the atom of the working molecule that the canonical SMILES writes at position j
OldIndexOf(e, j) == CHOOSE i \in 0..(Len(e.order) - 1) : At(e.order, i) = j

\* Chem.CanonicalRankAtoms: a rank per atom, the same for an atom before and
\* after the SMILES round trip
CanonicalRankAtoms(e, reparsed) ==
    IF reparsed
    THEN [j \in 1..Len(e.rank) |-> At(e.rank, OldIndexOf(e, j - 1))]
    ELSE e.rank

\* Chem.MolToSmiles: the atoms in canonical order, each with its symbol, its
\* hydrogen count and its radical electrons, and the bonds between them
MolToSmiles(mol, e) ==
    [atoms |-> [j \in 1..NumAtoms(mol) |->
                    LET a == At(mol.atoms, OldIndexOf(e, j - 1))
                    IN  [symbol |-> a.symbol, hs |-> TotalHs(a), rad |-> a.rad]],
     bonds |-> [k \in 1..Len(mol.bonds) |->
                    <<At(e.order, mol.bonds[k][1]), At(e.order, mol.bonds[k][2])>>]]

\* Chem.MolFromSmiles: a new molecule, indexed as the string is written
MolFromSmiles(smiles) ==
    [atoms |-> [j \in 1..Len(smiles.atoms) |->
                    [symbol |-> smiles.atoms[j].symbol, rad |-> smiles.atoms[j].rad,
                     expHs |-> smiles.atoms[j].hs, impHs |-> 0]],
     bonds |-> smiles.bonds]

\* the bonds AddHs appends: for each heavy atom in index order, one bond to
\* each new hydrogen atom
RECURSIVE AddHBonds(_, _, _, _)
AddHBonds(atoms, i, k, nextH) ==
    IF i >= Len(atoms) THEN <<>>
    ELSE IF k < TotalHs(At(atoms, i))
         THEN <<<<i, nextH>>>> \o AddHBonds(atoms, i, k + 1, nextH + 1)
         ELSE AddHBonds(atoms, i + 1, 0, nextH)

\* Chem.AddHs: the symbols of all atoms, hydrogens last, and all bonds
AddHs(mol) ==
    LET hbonds == AddHBonds(mol.atoms, 0, 0, NumAtoms(mol))
    IN  [symbols |-> [j \in 1..(NumAtoms(mol) + Len(hbonds)) |->
                          IF j <= NumAtoms(mol) THEN mol.atoms[j].symbol ELSE "H"],
         bonds |-> mol.bonds \o hbonds]

BondHasH(molH, b) ==
    "H" \in {At(molH.symbols, At(molH.bonds, b)[1]), At(molH.symbols, At(molH.bonds, b)[2])}

BondIndices(molH) == 0..(Len(molH.bonds) - 1)

RECURSIVE SortedList(_)
SortedList(S) ==
    IF S = {} THEN <<>>
    ELSE LET m == CHOOSE x \in S : \A y \in S : x <= y
         IN  <<m>> \o SortedList(S \ {m})

\* list.index(value)
ListIndex(list, v) == (CHOOSE p \in 1..Len(list) : list[p] = v /\ \A q \in 1..(p - 1) : list[q] # v) - 1

\* the "same index" shortcut: the radical's index before the round trip
SameIndexAfterRoundTrip(e, radical_index) == radical_index

\* list(Chem.CanonicalRankAtoms(mol)).index(radical_rank) on the reparsed molecule
RadicalIndexReordered(e, radical_index) ==
    ListIndex(CanonicalRankAtoms(e, TRUE), At(CanonicalRankAtoms(e, FALSE), radical_index))

\* the first bond of the atom that has a hydrogen at an end
FirstHBond(molH, atom_index) ==
    LET mine == {b \in BondIndices(molH) :
                    atom_index \in {At(molH.bonds, b)[1], At(molH.bonds, b)[2]} /\ BondHasH(molH, b)}
    IN  IF mine = {} THEN None ELSE Some(CHOOSE b \in mine : \A c \in mine : b <= c)

\* list(set(h_bond_indices) - {bond_index})
OtherHBonds(molH, bond_index) ==
    SortedList({b \in BondIndices(molH) : BondHasH(molH, b)} \ {bond_index})

\* prepare_for_bde from the SMILES round trip on (lines 165-192): radical_index is the
\* atom capped, mol the molecule that was passed in, now capped
PrepareAfterCap(e, mol, radical_index) ==
    [res |-> (LET bond == FirstHBond(AddHs(MolFromSmiles(MolToSmiles(mol, e))),
                                     RadicalIndexReordered(e, radical_index))
              IN  IF bond = None
                  THEN Raise("UnboundLocalError")
                  ELSE Return([mol_smiles |-> MolToSmiles(mol, e),
                               radical_index_mol |-> RadicalIndexReordered(e, radical_index),
                               bond_index |-> bond[1],
                               other_h_bonds |-> OtherHBonds(AddHs(MolFromSmiles(MolToSmiles(mol, e))),
                                                             bond[1])])),
     mol |-> mol]

\* prepare_for_bde after its loop: indexing the ranks with radical_index = None is a TypeError
PrepareAfterScan(e, scan) ==
    IF scan.res.kind = "raise" THEN scan
    ELSE IF scan.res.val = None THEN [res |-> Raise("TypeError"), mol |-> scan.mol]
    ELSE PrepareAfterCap(e, scan.mol, scan.res.val[1])

\* prepare_for_bde(mol): the outcome, and the molecule that was passed in as the call leaves it
prepare_for_bde(mol, e) == PrepareAfterScan(e, ScanRadical(mol, 0, None))

-----------------------------------------------------------------------------
(* Featurizers and models *)

\* token arrays of a featurization: every token known (2), or the unknown token 1 in the last place
TokenArrays(k) ==
    {[i \in 1..k |-> 2]} \cup (IF k > 0 THEN {[i \in 1..k |-> IF i = k THEN 1 ELSE 2]} ELSE {})

Features(nAtoms, nBonds) == [atom : TokenArrays(nAtoms), bond : TokenArrays(nBonds)]

\* (inputs['atom'] == 1).any() | (inputs['bond'] == 1).any()
HasUnknown(inputs) ==
    (\E i \in 1..Len(inputs.atom) : inputs.atom[i] = 1) \/ (\E i \in 1..Len(inputs.bond) : inputs.bond[i] = 1)

BdeProfiles == {"up", "down"}

\* predict(self.bde_model, model_inputs)[0][0, :, 0]: one predicted BDE per bond
PredBdes(e, nBonds) ==
    [k \in 1..nBonds |->
        IF e.bde_profile = "up" THEN R(50 + 5 * k) ELSE R(90 - 5 * k)]

\* bde_get_inputs(mol_smiles)
bde_get_inputs(mol_smiles, e) ==
    IF HasUnknown(e.bde_features) THEN Raise("AssertionError") ELSE Return(e.bde_features)

RMinOf(S) == CHOOSE x \in S : \A y \in S : RLe(x, y)

\* bde_diff taken over every hydrogen bond, the radical's own included
BdeDiffOverAll(pred_bdes, inputs) ==
    RMinOf({RSub(At(pred_bdes, b), At(pred_bdes, inputs.bond_index)) :
                b \in {inputs.other_h_bonds[k] : k \in 1..Len(inputs.other_h_bonds)} \cup {inputs.bond_index}})

BdeDiff(pred_bdes, inputs) ==
    IF Len(inputs.other_h_bonds) = 0
    THEN R(30)
    ELSE RMinOf({RSub(At(pred_bdes, inputs.other_h_bonds[k]), At(pred_bdes, inputs.bond_index)) :
                    k \in 1..Len(inputs.other_h_bonds)})

\* calc_bde once the BDE model has answered (lines 141-150)
CalcBdeResult(pred_bdes, inputs) ==
    Return([bde |-> At(pred_bdes, inputs.bond_index), bde_diff |-> BdeDiff(pred_bdes, inputs)])

\* calc_bde after prepare_for_bde (lines 136-150)
CalcBdeAfterPrepare(e, prep) ==
    IF prep.res.kind = "raise" THEN [res |-> prep.res, mol |-> prep.mol, predict |-> {}]
    ELSE IF bde_get_inputs(prep.res.val.mol_smiles, e).kind = "raise"
    THEN [res |-> bde_get_inputs(prep.res.val.mol_smiles, e), mol |-> prep.mol, predict |-> {}]
    ELSE [res |-> CalcBdeResult(PredBdes(e, Len(AddHs(MolFromSmiles(prep.res.val.mol_smiles)).bonds)),
                                prep.res.val),
          mol |-> prep.mol, predict |-> {"bde"}]

\* calc_bde(state): the outcome, the state's molecule as the call leaves it, the models called
calc_bde(mol, e) == CalcBdeAfterPrepare(e, prepare_for_bde(mol, e))

-----------------------------------------------------------------------------
(* calc_reward and get_reward *)

ea_range == <<Rat(-1, 2), Rat(1, 5)>>
ie_range == <<Rat(1, 2), Rat(6, 5)>>
v_range == <<R(1), Rat(17, 10)>>
bde_range == <<R(60), R(80)>>

PyStr(v) == [type |-> "str", val |-> v]
PyBool(b) == [type |-> "bool", val |-> b]
PyFloat(v) == [type |-> "float", val |-> v]

\* dict.update
DictUpdate(d, u) == [k \in DOMAIN d \cup DOMAIN u |-> IF k \in DOMAIN u THEN u[k] ELSE d[k]]

\* numpy argmax: the first of the largest
ArgMax(arr) ==
    (CHOOSE p \in 1..Len(arr) :
        (\A q \in 1..Len(arr) : RLe(arr[q], arr[p])) /\ (\A q \in 1..(p - 1) : RLt(arr[q], arr[p]))) - 1

\* the reward from the four windowed losses, the first to raise raising
RewardOfLosses(max_spin, spin_buried_vol, w) ==
    IF \E k \in 1..4 : w[k].kind = "raise"
    THEN w[CHOOSE k \in 1..4 : w[k].kind = "raise" /\ \A j \in 1..(k - 1) : w[j].kind # "raise"]
    ELSE Return(RAdd(RAdd(RMul(RSub(R(1), max_spin), R(50)), spin_buried_vol),
                     RDiv(RMul(R(100), RAdd(RAdd(RAdd(w[1].val, w[2].val), w[3].val), w[4].val)), R(4))))

PlusBdeDiff(reward, bde_diff) ==
    IF reward.kind = "raise" THEN reward ELSE Return(RAdd(reward.val, bde_diff))

\* the reward with a bde_diff term switched on
RewardWithBdeDiff(max_spin, spin_buried_vol, electron_affinity, ionization_energy, v_diff, bde, bde_diff) ==
    PlusBdeDiff(RewardOfLosses(max_spin, spin_buried_vol,
                               <<windowed_loss(electron_affinity, ea_range),
                                 windowed_loss(ionization_energy, ie_range),
                                 windowed_loss(v_diff, v_range), windowed_loss(bde, bde_range)>>),
                bde_diff)

\* (1 - max_spin) * 50 + spin_buried_vol + 100 * (the four windowed losses) / 4
Reward(max_spin, spin_buried_vol, electron_affinity, ionization_energy, v_diff, bde, bde_diff) ==
    RewardOfLosses(max_spin, spin_buried_vol,
                   <<windowed_loss(electron_affinity, ea_range), windowed_loss(ionization_energy, ie_range),
                     windowed_loss(v_diff, v_range), windowed_loss(bde, bde_range)>>)

\* the stats left as numbers
StatsUnconverted(max_spin, spin_buried_vol, ionization_energy, electron_affinity, bde, bde_diff) ==
    [max_spin |-> PyFloat(max_spin), spin_buried_vol |-> PyFloat(spin_buried_vol),
     ionization_energy |-> PyFloat(ionization_energy), electron_affinity |-> PyFloat(electron_affinity),
     bde |-> PyFloat(bde), bde_diff |-> PyFloat(bde_diff)]

\* the stats dict, every value through str()
Stats(max_spin, spin_buried_vol, ionization_energy, electron_affinity, bde, bde_diff) ==
    [max_spin |-> PyStr(max_spin), spin_buried_vol |-> PyStr(spin_buried_vol),
     ionization_energy |-> PyStr(ionization_energy), electron_affinity |-> PyStr(electron_affinity),
     bde |-> PyStr(bde), bde_diff |-> PyStr(bde_diff)]

\* self.get_policy_inputs(state)
get_policy_inputs(st, e) == e.policy_inputs

\* calc_reward's return (line 129)
CalcRewardReturn(reward, stats, mol, called) ==
    IF reward.kind = "raise"
    THEN [res |-> reward, mol |-> mol, predict |-> called]
    ELSE [res |-> Return([reward |-> reward.val, stats |-> stats]), mol |-> mol, predict |-> called]

\* calc_reward after calc_bde (lines 104-129)
CalcRewardAfterBde(e, atom_index, bdeCall) ==
    IF bdeCall.res.kind = "raise"
    THEN [res |-> bdeCall.res, mol |-> bdeCall.mol, predict |-> {"stability", "redox"} \cup bdeCall.predict]
    ELSE CalcRewardReturn(
             Reward(At(e.spins, atom_index), At(e.buried_vol, atom_index), e.redox[2], e.redox[1],
                    RSub(e.redox[1], e.redox[2]), bdeCall.res.val.bde, bdeCall.res.val.bde_diff),
             Stats(At(e.spins, atom_index), At(e.buried_vol, atom_index), e.redox[1], e.redox[2],
                   bdeCall.res.val.bde, bdeCall.res.val.bde_diff),
             bdeCall.mol, {"stability", "redox"} \cup bdeCall.predict)

\* calc_reward from atom_index on (lines 93-129); GetAtomWithIdx raises past the last atom
CalcRewardAt(st, e, atom_index) ==
    IF atom_index >= NumAtoms(st.molecule)
    THEN [res |-> Raise("IndexError"), mol |-> st.molecule, predict |-> {"stability"}]
    ELSE CalcRewardAfterBde(e, atom_index, calc_bde(st.molecule, e))

\* calc_reward(state): the outcome, the state's molecule as the call leaves it, the models called
calc_reward(st, e) == CalcRewardAt(st, e, ArgMax(e.spins))

\* a domain check that looks at the atom array only
OutOfDomainAtomsOnly(policy_inputs) == \E i \in 1..Len(policy_inputs.atom) : policy_inputs.atom[i] = 1

\* (policy_inputs['atom'] == 1).any() | (policy_inputs['bond'] == 1).any()
OutOfDomain(policy_inputs) == HasUnknown(policy_inputs)

ZeroReward(st) ==
    Return([reward |-> R(0),
            stats |-> [forced_terminal |-> PyBool(FALSE), smiles |-> PyStr(st.smiles)]])

\* get_reward after calc_reward (lines 76-77)
GetRewardAfterCalc(st, c) ==
    [res |-> IF c.res.kind = "raise" THEN c.res
             ELSE Return([reward |-> c.res.val.reward,
                          stats |-> DictUpdate(c.res.val.stats,
                                               [forced_terminal |-> PyBool(TRUE),
                                                smiles |-> PyStr(st.smiles)])]),
     mol |-> c.mol,
     trace |-> [calc_reward |-> TRUE, predict |-> c.predict]]

\* get_reward(state): the outcome, the state's molecule as the call leaves it, what was invoked
get_reward(st, e) ==
    IF OutOfDomain(get_policy_inputs(st, e))
    THEN [res |-> ZeroReward(st), mol |-> st.molecule,
          trace |-> [calc_reward |-> FALSE, predict |-> {}]]
    ELSE IF st.forced_terminal
    THEN GetRewardAfterCalc(st, calc_reward(st, e))
    ELSE [res |-> ZeroReward(st), mol |-> st.molecule,
          trace |-> [calc_reward |-> FALSE, predict |-> {}]]

-----------------------------------------------------------------------------
(* The reward specification: get_reward called on a state *)

Quarter == Rat(1, 4)
ThreeQuarters == Rat(3, 4)

\* predict(self.stability_model, ...): a spin per atom
SpinArrays(n) == [1..n -> {Quarter, ThreeQuarters}]

\* ... and a buried volume per atom
BuriedVolArrays(n) == {[i \in 1..n |-> R(10 * i)], [i \in 1..n |-> R(10 * (n + 1 - i))]}

\* predict(self.redox_model, ...): (ionization_energy, electron_affinity)
RedoxOutputs == {<<Rat(1, 2), R(0)>>, <<R(1), R(-1)>>, <<R(1), R(0)>>}

\* what the BDE preprocessor makes of a capped molecule: in its vocabulary, or an unknown bond
BdeFeatures(n) == {f \in Features(n, n) : \A i \in 1..n : f.atom[i] # 1}

Identity(n) == [i \in 1..n |-> i - 1]
Reversal(n) == [i \in 1..n |-> n - i]

IdleEnv == [idle |-> TRUE]
IdleState == [idle |-> TRUE]

\* what the models, the BDE preprocessor and rdkit answer for a state of n atoms
ModelEnvs(n) ==
    [spins : SpinArrays(n), buried_vol : BuriedVolArrays(n),
     redox : RedoxOutputs, bde_features : BdeFeatures(n), bde_profile : BdeProfiles,
     rank : {Identity(n)}, order : {Identity(n), Reversal(n)}]

\* the answers for a state that get_reward never hands to a model are drawn once
UnconsultedEnv(n) ==
    [spins |-> [i \in 1..n |-> Quarter], buried_vol |-> [i \in 1..n |-> R(10 * i)],
     redox |-> <<R(1), R(0)>>,
     bde_features |-> [atom |-> [i \in 1..n |-> 2], bond |-> [i \in 1..n |-> 2]],
     bde_profile |-> "up", rank |-> Identity(n), order |-> Identity(n)]

\* the molecules of the states scored: hydrogens explicit
StateMolecules == {mol \in Molecules : \A i \in 1..NumAtoms(mol) : mol.atoms[i].impHs = 0}

NoTrace == [calc_reward |-> FALSE, predict |-> {}]

BdeIdle == bde_inputs = NoCall /\ bde_ret = NoCall /\ bde_arg = None
WlIdle == wl_range = <<>> /\ wl_targets = <<>> /\ wl_results = <<>>
RewardIdle ==
    /\ state = IdleState /\ created = None /\ env = IdleEnv
    /\ ret = NoCall /\ first_ret = NoCall /\ calls = 0 /\ trace = NoTrace

Init ==
    /\ \E mol \in StateMolecules, ft \in BOOLEAN :
         \E policy_inputs \in Features(NumAtoms(mol), NumAtoms(mol) - 1) :
           \E e \in IF HasUnknown(policy_inputs) \/ ~ft
                     THEN {UnconsultedEnv(NumAtoms(mol))} ELSE ModelEnvs(NumAtoms(mol)) :
             /\ env = [policy_inputs |-> policy_inputs] @@ e
             /\ state = [molecule |-> mol, forced_terminal |-> ft, smiles |-> MolToSmiles(mol, e)]
             /\ created = mol
    /\ ret = NoCall /\ first_ret = NoCall /\ calls = 0 /\ trace = NoTrace
    /\ BdeIdle /\ WlIdle

\* the caller sees the outcome; the state keeps whatever the call did to its molecule
GetRewardDone(out) ==
    /\ state' = [state EXCEPT !.molecule = out.mol]
    /\ ret' = out.res
    /\ first_ret' = IF calls = 0 THEN out.res ELSE first_ret
    /\ trace' = out.trace

GetReward ==
    /\ calls < MaxCalls
    /\ GetRewardDone(get_reward(state, env))
    /\ calls' = calls + 1
    /\ UNCHANGED <<created, env, bdeVars, wlVars>>

Next == GetReward

Spec == Init /\ [][Next]_vars

-----------------------------------------------------------------------------
(* The BDE specification: prepare_for_bde and calc_bde called on a molecule *)

BdeEnvs(n) ==
    [bde_features : BdeFeatures(n), bde_profile : BdeProfiles,
     rank : {Identity(n), Reversal(n)}, order : Perms(n)]

InitBde ==
    /\ \E mol \in Molecules :
         /\ env \in BdeEnvs(NumAtoms(mol))
         /\ state = [molecule |-> mol, forced_terminal |-> TRUE, smiles |-> MolToSmiles(mol, env)]
         /\ created = mol
    /\ ret = NoCall /\ first_ret = NoCall /\ calls = 0 /\ trace = NoTrace
    /\ BdeIdle /\ WlIdle

PrepareForBdeDone(out) ==
    /\ bde_inputs' = out.res
    /\ state' = [state EXCEPT !.molecule = out.mol]

CalcBdeDone(out) ==
    /\ bde_ret' = out.res
    /\ state' = [state EXCEPT !.molecule = out.mol]
    /\ trace' = [calc_reward |-> FALSE, predict |-> out.predict]

PrepareForBde ==
    /\ calls < MaxCalls
    /\ PrepareForBdeDone(prepare_for_bde(state.molecule, env))
    /\ bde_arg' = Some(state.molecule)
    /\ bde_ret' = NoCall
    /\ calls' = calls + 1
    /\ UNCHANGED <<created, env, ret, first_ret, trace, wlVars>>

CalcBde ==
    /\ calls < MaxCalls
    /\ CalcBdeDone(calc_bde(state.molecule, env))
    /\ bde_inputs' = prepare_for_bde(state.molecule, env).res
    /\ bde_arg' = Some(state.molecule)
    /\ calls' = calls + 1
    /\ UNCHANGED <<created, env, ret, first_ret, wlVars>>

NextBde == PrepareForBde \/ CalcBde

SpecBde == InitBde /\ [][NextBde]_vars

-----------------------------------------------------------------------------
(* The windowed_loss specification: two calls with the same desired_range *)

\* targets in halves from below the lowest zero of the score to above the highest
Targets == {Rat(k, 2) : k \in (-2 * MaxRange)..(4 * MaxRange)}

\* desired ranges (low, high), spans of every sign
Ranges == {<<R(lo), R(hi)>> : lo \in 0..1, hi \in 0..MaxRange} \cup {<<R(3), R(hi)>> : hi \in 0..3}

InitWl ==
    /\ wl_range \in Ranges
    /\ wl_targets \in Targets \X Targets
    /\ wl_results = <<>>
    /\ RewardIdle /\ BdeIdle

WindowedLoss ==
    /\ Len(wl_results) < Len(wl_targets)
    /\ wl_results' = Append(wl_results, windowed_loss(wl_targets[Len(wl_results) + 1], wl_range))
    /\ UNCHANGED <<wl_range, wl_targets, rewardVars, bdeVars>>

NextWl == WindowedLoss

SpecWl == InitWl /\ [][NextWl]_vars

-----------------------------------------------------------------------------
(* Claims *)

Elems(seq) == {seq[i] : i \in 1..Len(seq)}

\* the unknown token 1 is in the policy featurization's atom or bond array
PolicyHasUnknownToken == 1 \in Elems(env.policy_inputs.atom) \cup Elems(env.policy_inputs.bond)

ZeroResult ==
    Return([reward |-> R(0), stats |-> [forced_terminal |-> PyBool(FALSE), smiles |-> PyStr(state.smiles)]])

\* C1: for a state whose policy featurization holds the unknown token 1 (whatever its
\* forced_terminal flag) and for an in-domain state that is not forced-terminal, get_reward
\* returns exactly (0.0, {forced_terminal: False, smiles: state.smiles}) without invoking
\* calc_reward or any prediction; a nonzero reward is returned only for an in-domain
\* forced-terminal state.
C1_ZeroRewardUnlessInDomainTerminal ==
    calls > 0 =>
        /\ (PolicyHasUnknownToken \/ ~state.forced_terminal) =>
               ret = ZeroResult /\ ~trace.calc_reward /\ trace.predict = {}
        /\ (ret.kind = "return" /\ ret.val.reward # R(0)) =>
               ~PolicyHasUnknownToken /\ state.forced_terminal

\* get_reward has answered an out-of-domain state that is forced-terminal
C1_Witness ==
    calls > 0 /\ PolicyHasUnknownToken /\ state.forced_terminal /\ ret = ZeroResult

\* C2: whenever a featurization performed during get_reward (the policy featurization, or
\* the BDE preprocessor's in bde_get_inputs) reports the unknown token 1, get_reward
\* completes normally with a zero-reward, forced_terminal=False result and the BDE model
\* is not asked for a prediction.
C2_OutOfDomainNeverRaises ==
    (/\ calls = 1
     /\ \/ PolicyHasUnknownToken
        \/ /\ state.forced_terminal
           /\ RadicalAtoms(created) # {}
           /\ 1 \in Elems(env.bde_features.atom) \cup Elems(env.bde_features.bond))
    => ret = ZeroResult /\ "bde" \notin trace.predict

\* C3: prepare_for_bde fails for every molecule with no radical atom and for every
\* molecule with two or more; it returns a record only when exactly one atom is a radical.
C3_FailsUnlessOneRadical ==
    bde_inputs.kind # "none" =>
        (bde_inputs.kind = "return" <=> Cardinality(RadicalAtoms(bde_arg[1])) = 1)

\* C4: scoring does not mutate the state: after get_reward the state's molecule has the
\* radical-electron and explicit-hydrogen counts it was created with, and a second
\* get_reward call on the same state gives what the first gave.
C4_ScoringLeavesStateAlone ==
    /\ calls > 0 =>
           \A i \in 1..NumAtoms(created) :
               /\ state.molecule.atoms[i].rad = created.atoms[i].rad
               /\ state.molecule.atoms[i].expHs = created.atoms[i].expHs
    /\ calls >= 2 => ret = first_ret

WlSpan == RSub(wl_range[2], wl_range[1])
WlInnerLow == RAdd(wl_range[1], RDiv(WlSpan, R(6)))
WlInnerHigh == RSub(wl_range[2], RDiv(WlSpan, R(6)))

\* the score the specification gives a target, for a positive span
WlExpected(target) ==
    IF RLt(target, WlInnerLow)
    THEN RMax(RSub(R(1), RDiv(RMul(R(3), RSub(WlInnerLow, target)), WlSpan)), R(0))
    ELSE IF RLt(WlInnerHigh, target)
    THEN RMax(RSub(R(1), RDiv(RMul(R(3), RSub(target, WlInnerHigh)), WlSpan)), R(0))
    ELSE R(1)

C6_NonPositiveSpanRaises ==
    ~RLt(R(0), WlSpan) => \A k \in 1..Len(wl_results) : wl_results[k].kind = "raise"

\* C6 amended: windowed_loss has no guard for span <= 0.  With span = 0 it raises
\* (ZeroDivisionError) for every target other than low and returns 1 for target = low;
\* with span < 0 it never raises and returns a score greater than 1.
C6_NonPositiveSpanUnguarded ==
    \A k \in 1..Len(wl_results) :
        /\ WlSpan = R(0) =>
               wl_results[k] = IF wl_targets[k] = wl_range[1] THEN Return(R(1))
                               ELSE Raise("ZeroDivisionError")
        /\ RLt(WlSpan, R(0)) =>
               wl_results[k].kind = "return" /\ RLt(R(1), wl_results[k].val)

\* a call with a negative span has returned, and one with a zero span has raised
C6_Witness ==
    /\ Len(wl_results) = 2
    /\ \/ RLt(WlSpan, R(0)) /\ wl_results[1].kind = "return"
       \/ WlSpan = R(0) /\ wl_results[1].kind = "raise" /\ wl_results[2].kind = "return"

\* the first atom whose spin is the largest
FirstMaxSpinAtom ==
    CHOOSE i \in 0..(Len(env.spins) - 1) :
        /\ \A j \in 0..(Len(env.spins) - 1) : RLe(At(env.spins, j), At(env.spins, i))
        /\ \A j \in 0..(i - 1) : At(env.spins, j) # At(env.spins, i)

\* what prepare_for_bde returned for the state as created, and the BDE predicted at bond_index
CreatedBdeInputs == prepare_for_bde(created, env).res.val
CreatedBde ==
    At(PredBdes(env, Len(AddHs(MolFromSmiles(CreatedBdeInputs.mol_smiles)).bonds)),
       CreatedBdeInputs.bond_index)

W(target, desired_range) == windowed_loss(target, desired_range).val

\* C7: for an in-domain forced-terminal state the reward get_reward returns is
\* (1 - max_spin)*50 + spin_buried_vol + 100*(W(ea, (-0.5, 0.2)) + W(ie, (0.5, 1.2))
\* + W(ie - ea, (1, 1.7)) + W(bde, (60, 80)))/4, with max_spin and spin_buried_vol taken
\* at the first atom of largest spin and bde the prediction at bond_index; bde_diff adds
\* nothing.
C7_RewardFormula ==
    (calls = 1 /\ ret.kind = "return" /\ ~PolicyHasUnknownToken /\ state.forced_terminal) =>
        LET ie == env.redox[1]
            ea == env.redox[2]
            mean4 == RDiv(RAdd(RAdd(W(ea, <<Rat(-5, 10), Rat(2, 10)>>), W(ie, <<Rat(5, 10), Rat(12, 10)>>)),
                               RAdd(W(RSub(ie, ea), <<R(1), Rat(17, 10)>>), W(CreatedBde, <<R(60), R(80)>>))),
                          R(4))
        IN  ret.val.reward =
                RAdd(RSub(R(50), RMul(R(50), At(env.spins, FirstMaxSpinAtom))),
                     RAdd(At(env.buried_vol, FirstMaxSpinAtom), RMul(R(100), mean4)))

\* a full reward was returned for a state whose two atoms tie on spin and differ in buried volume
C7_Witness ==
    /\ calls = 1 /\ ret.kind = "return" /\ ~PolicyHasUnknownToken /\ state.forced_terminal
    /\ Len(env.spins) = 2 /\ env.spins[1] = env.spins[2]
    /\ ret.val.reward # R(0)

SixKeys == {"max_spin", "spin_buried_vol", "ionization_energy", "electron_affinity", "bde", "bde_diff"}

\* C8: for an in-domain forced-terminal state that scores successfully the stats hold
\* exactly the six diagnostic keys, each mapped to a string, plus forced_terminal = True
\* and smiles = the state's SMILES; forced_terminal in the stats is True exactly when the
\* full reward was computed.
C8_StatsOfFullReward ==
    (calls > 0 /\ ret.kind = "return") =>
        /\ (~PolicyHasUnknownToken /\ state.forced_terminal) =>
               /\ DOMAIN ret.val.stats = SixKeys \cup {"forced_terminal", "smiles"}
               /\ \A k \in SixKeys : ret.val.stats[k].type = "str"
               /\ ret.val.stats["forced_terminal"] = PyBool(TRUE)
               /\ ret.val.stats["smiles"] = PyStr(state.smiles)
        /\ ret.val.stats["forced_terminal"] = PyBool(TRUE) <=> trace.calc_reward

\* get_reward has returned the stats of a full reward
C8_Witness ==
    /\ calls = 1 /\ ret.kind = "return" /\ trace.calc_reward
    /\ trace.predict = {"stability", "redox", "bde"}
    /\ ret.val.stats["max_spin"] = PyStr(ThreeQuarters)

\* the predictions calc_bde read in its last call
LastPredBdes == PredBdes(env, Len(AddHs(MolFromSmiles(bde_inputs.val.mol_smiles)).bonds))

\* C9: calc_bde returns bde_diff = 30.0 whenever other_h_bonds is empty, and otherwise the
\* least of predicted_bde[b] - predicted_bde[bond_index] over b in other_h_bonds; the bde
\* it returns is predicted_bde[bond_index].
C9_BdeAndBdeDiff ==
    bde_ret.kind = "return" =>
        LET inputs == bde_inputs.val
            diffs == {RSub(At(LastPredBdes, b), At(LastPredBdes, inputs.bond_index)) :
                         b \in Elems(inputs.other_h_bonds)}
        IN  /\ bde_ret.val.bde = At(LastPredBdes, inputs.bond_index)
            /\ inputs.other_h_bonds = <<>> => bde_ret.val.bde_diff = R(30)
            /\ inputs.other_h_bonds # <<>> =>
                   /\ bde_ret.val.bde_diff \in diffs
                   /\ \A d \in diffs : RLe(bde_ret.val.bde_diff, d)

\* calc_bde has returned the sentinel for a molecule whose capped X-H bond is its only hydrogen bond
C9_Witness ==
    /\ bde_ret.kind = "return" /\ bde_inputs.val.other_h_bonds = <<>>
    /\ bde_ret.val.bde_diff = R(30)

\* calc_bde has returned a negative difference: another X-H bond is weaker than the radical's
C9_WitnessOtherBonds ==
    /\ bde_ret.kind = "return" /\ Len(bde_inputs.val.other_h_bonds) >= 2
    /\ RLt(bde_ret.val.bde_diff, R(0))

\* C10: for a molecule with exactly one radical atom, bond_index is a bond between the
\* re-indexed radical atom and a hydrogen; other_h_bonds does not contain bond_index and
\* has no duplicates; other_h_bonds with bond_index is exactly the set of bonds of the
\* hydrogen-explicit molecule that have a hydrogen at an end.
C10_BondIndexAndOtherHBonds ==
    (bde_inputs.kind = "return" /\ Cardinality(RadicalAtoms(bde_arg[1])) = 1) =>
        LET inputs == bde_inputs.val
            molH == AddHs(MolFromSmiles(inputs.mol_smiles))
            radical == CHOOSE i \in RadicalAtoms(bde_arg[1]) : TRUE
            bond == At(molH.bonds, inputs.bond_index)
            hbonds == {b \in 0..(Len(molH.bonds) - 1) :
                          \E end \in 1..2 : At(molH.symbols, At(molH.bonds, b)[end]) = "H"}
        IN  /\ inputs.radical_index_mol = At(env.order, radical)
            /\ inputs.bond_index \in 0..(Len(molH.bonds) - 1)
            /\ \E end \in 1..2 :
                   /\ bond[end] = inputs.radical_index_mol
                   /\ At(molH.symbols, bond[3 - end]) = "H"
            /\ inputs.bond_index \notin Elems(inputs.other_h_bonds)
            /\ Cardinality(Elems(inputs.other_h_bonds)) = Len(inputs.other_h_bonds)
            /\ Elems(inputs.other_h_bonds) \cup {inputs.bond_index} = hbonds

\* prepare_for_bde has returned for a one-radical molecule whose radical moved in the
\* round trip and whose other atom carries hydrogens too
C10_Witness ==
    /\ bde_inputs.kind = "return" /\ Cardinality(RadicalAtoms(bde_arg[1])) = 1
    /\ bde_inputs.val.radical_index_mol \notin RadicalAtoms(bde_arg[1])
    /\ bde_inputs.val.other_h_bonds # <<>>

====
